---- MODULE Spec2Model ----
(***************************************************************************)
(* macrokid/examples/graphics_demo/include/demo.hpp                        *)
(*                                                                         *)
(* The header holds two annotated aggregate declarations and nothing that  *)
(* executes.  It is modelled as the sequence of its eleven lines, each     *)
(* line a record of what is written on it, the annotate("...") string      *)
(* literals kept character by character.  The state machine is the reading *)
(* of the header in source order: one step per line (a declaration is      *)
(* entered in the declaration table, an aggregate is opened or closed) and *)
(* one step per character of an annotation string, split along its         *)
(* ns::tag(key=value,...) syntax.                                          *)
(***************************************************************************)
EXTENDS Naturals, Sequences, FiniteSets

VARIABLES
    pc,       \* number of the next header line to read
    cur,      \* name of the aggregate whose body is open, "" at file scope
    decls,    \* declarations entered so far, in declaration order
    closed,   \* names of the aggregates whose closing brace has been read
    phase,    \* position in the annotation syntax, "idle" between annotations
    i,        \* index of the next character of the annotation being split
    w,        \* the annotation being split: ns, tag, key, val, args
    attrs,    \* annotations split so far, each with the declaration it is on
    err       \* TRUE once the header was found malformed

vars == <<pc, cur, decls, closed, phase, i, w, attrs, err>>

----------------------------------------------------------------------------
(* The header, line by line.                                               *)

None == <<>>

Other(kind) ==
    [kind |-> kind, type |-> "", name |-> "", base |-> "", extent |-> 0,
     init |-> FALSE, annot |-> None]

\* line 1: #pragma once
Line1 == Other("pragma")

Line2 == Other("blank")

\* A variant of line 3: the annotation left off the aggregate: struct DemoVertex {
Line3_Untagged ==
    [kind |-> "struct_open", type |-> "struct", name |-> "DemoVertex",
     base |-> "", extent |-> 0, init |-> FALSE,
     annot |-> None]

\* line 3: struct __attribute__((annotate("mk::struct(tag=vertex)"))) DemoVertex {
Line3 ==
    [kind |-> "struct_open", type |-> "struct", name |-> "DemoVertex",
     base |-> "", extent |-> 0, init |-> FALSE,
     annot |-> <<"m","k",":",":","s","t","r","u","c","t","(",
                 "t","a","g","=","v","e","r","t","e","x",")">>]

\* A variant of line 4: float pos[4];
Line4_Extent4 ==
    [kind |-> "field", type |-> "float", name |-> "pos",
     base |-> "", extent |-> 4, init |-> FALSE,
     annot |-> None]

\* line 4: float pos[3];
Line4 ==
    [kind |-> "field", type |-> "float", name |-> "pos",
     base |-> "", extent |-> 3, init |-> FALSE, annot |-> None]

\* A variant of line 5: normal annotated mk::vertex(location=0,format=vec3)
Line5_Location0 ==
    [kind |-> "field", type |-> "float", name |-> "normal",
     base |-> "", extent |-> 3, init |-> FALSE,
     annot |-> <<"m","k",":",":","v","e","r","t","e","x","(",
                 "l","o","c","a","t","i","o","n","=","0",",",
                 "f","o","r","m","a","t","=","v","e","c","3",
                 ")">>]

\* line 5: float __attribute__((annotate("mk::vertex(location=1,format=vec3)"))) normal[3];
Line5 ==
    [kind |-> "field", type |-> "float", name |-> "normal",
     base |-> "", extent |-> 3, init |-> FALSE,
     annot |-> <<"m","k",":",":","v","e","r","t","e","x","(",
                 "l","o","c","a","t","i","o","n","=","1",",",
                 "f","o","r","m","a","t","=","v","e","c","3",")">>]

\* A variant of line 6: uv[2] annotated mk::vertex(location=2,format=vec3)
Line6_Vec3 ==
    [kind |-> "field", type |-> "float", name |-> "uv",
     base |-> "", extent |-> 2, init |-> FALSE,
     annot |-> <<"m","k",":",":","v","e","r","t","e","x","(",
                 "l","o","c","a","t","i","o","n","=","2",",",
                 "f","o","r","m","a","t","=","v","e","c","3",
                 ")">>]

\* A variant of line 6: uv annotated mk::vertex(location=1,format=vec2), the location of normal
Line6_Location1 ==
    [kind |-> "field", type |-> "float", name |-> "uv",
     base |-> "", extent |-> 2, init |-> FALSE,
     annot |-> <<"m","k",":",":","v","e","r","t","e","x","(",
                 "l","o","c","a","t","i","o","n","=","1",",",
                 "f","o","r","m","a","t","=","v","e","c","2",
                 ")">>]

\* line 6: float __attribute__((annotate("mk::vertex(location=2,format=vec2)"))) uv[2];
Line6 ==
    [kind |-> "field", type |-> "float", name |-> "uv",
     base |-> "", extent |-> 2, init |-> FALSE,
     annot |-> <<"m","k",":",":","v","e","r","t","e","x","(",
                 "l","o","c","a","t","i","o","n","=","2",",",
                 "f","o","r","m","a","t","=","v","e","c","2",")">>]

\* line 7: };
Line7 == Other("struct_close")

Line8 == Other("blank")

\* A variant of line 9: struct __attribute__((annotate("mk::struct(tag=material)"))) Material {
Line9_Tagged ==
    [kind |-> "struct_open", type |-> "struct", name |-> "Material",
     base |-> "", extent |-> 0, init |-> FALSE,
     annot |-> <<"m","k",":",":","s","t","r","u","c","t","(",
                 "t","a","g","=","m","a","t","e","r","i","a",
                 "l",")">>]

\* A variant of line 9: struct Material : DemoVertex {
Line9_Derived ==
    [kind |-> "struct_open", type |-> "struct", name |-> "Material",
     base |-> "DemoVertex", extent |-> 0, init |-> FALSE,
     annot |-> None]

\* line 9: struct Material {
Line9 ==
    [kind |-> "struct_open", type |-> "struct", name |-> "Material",
     base |-> "", extent |-> 0, init |-> FALSE, annot |-> None]

\* A variant of line 10: id annotated mk::resource(kind=uniform,set=0,binding=1)
Line10_Binding1 ==
    [kind |-> "field", type |-> "int", name |-> "id",
     base |-> "", extent |-> 0, init |-> FALSE,
     annot |-> <<"m","k",":",":","r","e","s","o","u","r","c",
                 "e","(","k","i","n","d","=","u","n","i","f",
                 "o","r","m",",","s","e","t","=","0",",","b",
                 "i","n","d","i","n","g","=","1",")">>]

\* A variant of line 10: int id = 0; with its annotation
Line10_Init ==
    [kind |-> "field", type |-> "int", name |-> "id",
     base |-> "", extent |-> 0, init |-> TRUE,
     annot |-> <<"m","k",":",":","r","e","s","o","u","r","c",
                 "e","(","k","i","n","d","=","u","n","i","f",
                 "o","r","m",",","s","e","t","=","0",",","b",
                 "i","n","d","i","n","g","=","0",")">>]

\* line 10: int __attribute__((annotate("mk::resource(kind=uniform,set=0,binding=0)"))) id;
Line10 ==
    [kind |-> "field", type |-> "int", name |-> "id",
     base |-> "", extent |-> 0, init |-> FALSE,
     annot |-> <<"m","k",":",":","r","e","s","o","u","r","c","e","(",
                 "k","i","n","d","=","u","n","i","f","o","r","m",",",
                 "s","e","t","=","0",",",
                 "b","i","n","d","i","n","g","=","0",")">>]

\* line 11: };
Line11 == Other("struct_close")

Header ==
    <<Line1, Line2, Line3, Line4, Line5, Line6, Line7, Line8, Line9,
      Line10, Line11>>

----------------------------------------------------------------------------
(* Reading the header.                                                     *)

Blank == [ns |-> "", tag |-> "", key |-> "", val |-> <<>>, args |-> <<>>]

Init ==
    /\ pc = 1
    /\ cur = ""
    /\ decls = <<>>
    /\ closed = {}
    /\ phase = "idle"
    /\ i = 0
    /\ w = Blank
    /\ attrs = <<>>
    /\ err = FALSE

AtLine == phase = "idle" /\ ~err /\ pc <= Len(Header)

\* The declaration a line makes, entered under the aggregate that is open.
Entry(line) ==
    [kind |-> IF line.kind = "struct_open" THEN "struct" ELSE line.kind,
     name |-> line.name, type |-> line.type, base |-> line.base,
     extent |-> line.extent,
     init |-> line.init, annot |-> line.annot, owner |-> cur, line |-> pc]

\* After a declaration: its annotation string, if it has one, is split next.
Annotated(line) ==
    IF line.annot = None
    THEN /\ phase' = "idle"
         /\ i' = 0
    ELSE /\ phase' = "ns"
         /\ i' = 1

\* A line that declares nothing: the pragma, an empty line.
SkipLine ==
    /\ AtLine
    /\ Header[pc].kind \in {"pragma", "blank"}
    /\ pc' = pc + 1
    /\ UNCHANGED <<cur, decls, closed, phase, i, w, attrs, err>>

\* struct [annotation] Name {
OpenStruct ==
    /\ AtLine
    /\ Header[pc].kind = "struct_open"
    /\ decls' = Append(decls, Entry(Header[pc]))
    /\ cur' = Header[pc].name
    /\ err' = (cur # "")
    /\ Annotated(Header[pc])
    /\ pc' = pc + 1
    /\ UNCHANGED <<closed, w, attrs>>

\* Any other declaration: a data member, and whatever else a line may declare.
Declare ==
    /\ AtLine
    /\ Header[pc].kind \notin {"pragma", "blank", "struct_open", "struct_close"}
    /\ decls' = Append(decls, Entry(Header[pc]))
    /\ err' = (Header[pc].kind = "field" /\ cur = "")
    /\ Annotated(Header[pc])
    /\ pc' = pc + 1
    /\ UNCHANGED <<cur, closed, w, attrs>>

\* };
CloseStruct ==
    /\ AtLine
    /\ Header[pc].kind = "struct_close"
    /\ closed' = IF cur = "" THEN closed ELSE closed \cup {cur}
    /\ cur' = ""
    /\ err' = (cur = "")
    /\ pc' = pc + 1
    /\ UNCHANGED <<decls, phase, i, w, attrs>>

----------------------------------------------------------------------------
(* Splitting the annotation string of the declaration entered last.        *)

Text == decls[Len(decls)].annot

Scanning(p) == phase = p /\ ~err /\ i <= Len(Text)

\* ns, up to the first ':'
ScanNs ==
    /\ Scanning("ns")
    /\ IF Text[i] = ":"
       THEN /\ phase' = "sep"
            /\ w' = w
       ELSE /\ phase' = "ns"
            /\ w' = [w EXCEPT !.ns = @ \o Text[i]]
    /\ i' = i + 1
    /\ UNCHANGED <<pc, cur, decls, closed, attrs, err>>

\* the second ':' of "::"
ScanSep ==
    /\ Scanning("sep")
    /\ phase' = "tag"
    /\ err' = (Text[i] # ":")
    /\ i' = i + 1
    /\ UNCHANGED <<pc, cur, decls, closed, w, attrs>>

\* tag, up to '('
ScanTag ==
    /\ Scanning("tag")
    /\ IF Text[i] = "("
       THEN /\ phase' = "key"
            /\ w' = w
       ELSE /\ phase' = "tag"
            /\ w' = [w EXCEPT !.tag = @ \o Text[i]]
    /\ i' = i + 1
    /\ UNCHANGED <<pc, cur, decls, closed, attrs, err>>

\* key, up to '='
ScanKey ==
    /\ Scanning("key")
    /\ IF Text[i] = "="
       THEN /\ phase' = "val"
            /\ w' = w
       ELSE /\ phase' = "key"
            /\ w' = [w EXCEPT !.key = @ \o Text[i]]
    /\ i' = i + 1
    /\ UNCHANGED <<pc, cur, decls, closed, attrs, err>>

Pushed == [w EXCEPT !.args = Append(@, [key |-> w.key, val |-> w.val]),
                    !.key = "", !.val = <<>>]

\* value, up to ',' (another key follows) or ')' (the annotation ends)
ScanVal ==
    /\ Scanning("val")
    /\ IF Text[i] = ","
       THEN /\ phase' = "key"
            /\ w' = Pushed
       ELSE IF Text[i] = ")"
       THEN /\ phase' = "end"
            /\ w' = Pushed
       ELSE /\ phase' = "val"
            /\ w' = [w EXCEPT !.val = Append(@, Text[i])]
    /\ i' = i + 1
    /\ UNCHANGED <<pc, cur, decls, closed, attrs, err>>

\* The closing ')' has been read, or the string is used up: the annotation is
\* attached to its declaration if ')' was its last character, and the header
\* is malformed if not.
ScanEnd ==
    /\ phase # "idle"
    /\ ~err
    /\ phase = "end" \/ i > Len(Text)
    /\ IF phase = "end" /\ i > Len(Text)
       THEN /\ attrs' = Append(attrs, [decl |-> Len(decls), ns |-> w.ns,
                                       tag |-> w.tag, args |-> w.args])
            /\ err' = FALSE
       ELSE /\ attrs' = attrs
            /\ err' = TRUE
    /\ phase' = "idle"
    /\ i' = 0
    /\ w' = Blank
    /\ UNCHANGED <<pc, cur, decls, closed>>

Next ==
    \/ SkipLine
    \/ OpenStruct
    \/ Declare
    \/ CloseStruct
    \/ ScanNs
    \/ ScanSep
    \/ ScanTag
    \/ ScanKey
    \/ ScanVal
    \/ ScanEnd

Spec == Init /\ [][Next]_vars

----------------------------------------------------------------------------
(* Views of the declaration table.                                         *)

RECURSIVE Str(_)
\* The characters of s as one string.
Str(s) == IF s = <<>> THEN "" ELSE Head(s) \o Str(Tail(s))

Digit ==
    [c \in {"0", "1", "2", "3", "4", "5", "6", "7", "8", "9"} |->
        CASE c = "0" -> 0 [] c = "1" -> 1 [] c = "2" -> 2 [] c = "3" -> 3
          [] c = "4" -> 4 [] c = "5" -> 5 [] c = "6" -> 6 [] c = "7" -> 7
          [] c = "8" -> 8 [] c = "9" -> 9]

IsNum(s) == s # <<>> /\ \A k \in 1..Len(s) : s[k] \in DOMAIN Digit

RECURSIVE ToNat(_)
\* The decimal number s writes.
ToNat(s) ==
    IF s = <<>> THEN 0
    ELSE 10 * ToNat(SubSeq(s, 1, Len(s) - 1)) + Digit[s[Len(s)]]

\* The component count a format names: vecN names N.
Components(fmt) ==
    IF Len(fmt) > 3 /\ SubSeq(fmt, 1, 3) = <<"v", "e", "c">>
                    /\ IsNum(SubSeq(fmt, 4, Len(fmt)))
    THEN ToNat(SubSeq(fmt, 4, Len(fmt)))
    ELSE 0

\* Everything declared inside aggregate s, in declaration order.
Members(s) == SelectSeq(decls, LAMBDA d : d.owner = s)

\* What a member declaration says, apart from its annotation.
Shape(d) == <<d.kind, d.type, d.name, d.extent>>

Shapes(s) == [k \in 1..Len(Members(s)) |-> Shape(Members(s)[k])]

IsPrefix(s, t) == Len(s) <= Len(t) /\ SubSeq(t, 1, Len(s)) = s

\* Indices in decls of the declarations named n inside aggregate s
\* (s = "" for a declaration at file scope).
Named(s, n) == {k \in 1..Len(decls) : decls[k].owner = s /\ decls[k].name = n}

\* The annotations attached to declaration k.
AttrsOn(k) == {a \in 1..Len(attrs) : attrs[a].decl = k}

\* The arguments of an annotation as key/value pairs, values as strings.
Args(a) == [k \in 1..Len(a.args) |-> <<a.args[k].key, Str(a.args[k].val)>>]

\* The values annotation a gives for key.
Vals(a, key) == {a.args[k].val : k \in {j \in 1..Len(a.args) : a.args[j].key = key}}

\* The whole header has been read and every annotation split.
Done == pc > Len(Header) /\ phase = "idle" /\ ~err

\* Declaration k has been read and, if it is annotated, its annotation split.
Settled(k) == k < Len(decls) \/ (k = Len(decls) /\ phase = "idle" /\ ~err)

----------------------------------------------------------------------------
(* Properties of the header.                                               *)

\* Declaration k carries exactly one annotation, ns::tag(args).
Carries(k, ns, tag, args) ==
    /\ Cardinality(AttrsOn(k)) = 1
    /\ \A a \in AttrsOn(k) :
          /\ attrs[a].ns = ns
          /\ attrs[a].tag = tag
          /\ Args(attrs[a]) = args

\* The one number annotation a gives for key is n.
NumArg(a, key, n) ==
    /\ Cardinality(Vals(a, key)) = 1
    /\ \A v \in Vals(a, key) : IsNum(v) /\ ToNat(v) = n

C1_Fields ==
    << <<"field", "float", "pos", 3>>,
       <<"field", "float", "normal", 3>>,
       <<"field", "float", "uv", 2>> >>

\* C1: DemoVertex declares exactly the three fields pos, normal, uv, in that
\* order, arrays of float of 3, 3 and 2 components: while its body is being
\* read its members are a prefix of that list, and once it is closed they
\* are that list, in every state.
C1_DemoVertexFields ==
    /\ IsPrefix(Shapes("DemoVertex"), C1_Fields)
    /\ "DemoVertex" \in closed => Shapes("DemoVertex") = C1_Fields

C1_Witness == "DemoVertex" \in closed /\ Len(Members("DemoVertex")) = 3

\* C2: the field normal carries the string mk::vertex(location=1,format=vec3)
\* and the field uv the string mk::vertex(location=2,format=vec2); split,
\* normal is a vertex attribute at location 1 of format vec3 and uv one at
\* location 2 of format vec2.
C2_VertexAnnotations ==
    /\ \A k \in Named("DemoVertex", "normal") :
          /\ Str(decls[k].annot) = "mk::vertex(location=1,format=vec3)"
          /\ Settled(k) =>
                /\ Carries(k, "mk", "vertex",
                           << <<"location", "1">>, <<"format", "vec3">> >>)
                /\ \A a \in AttrsOn(k) : NumArg(attrs[a], "location", 1)
    /\ \A k \in Named("DemoVertex", "uv") :
          /\ Str(decls[k].annot) = "mk::vertex(location=2,format=vec2)"
          /\ Settled(k) =>
                /\ Carries(k, "mk", "vertex",
                           << <<"location", "2">>, <<"format", "vec2">> >>)
                /\ \A a \in AttrsOn(k) : NumArg(attrs[a], "location", 2)
    /\ "DemoVertex" \in closed =>
          /\ Cardinality(Named("DemoVertex", "normal")) = 1
          /\ Cardinality(Named("DemoVertex", "uv")) = 1

C2_Witness ==
    /\ "DemoVertex" \in closed
    /\ \E k \in Named("DemoVertex", "normal") : AttrsOn(k) # {}
    /\ \E k \in Named("DemoVertex", "uv") : AttrsOn(k) # {}

\* C3: Material declares exactly one field, the int id, which carries the string
\* mk::resource(kind=uniform,set=0,binding=0): a resource of kind uniform at
\* descriptor set 0, binding 0.
C3_Material ==
    /\ IsPrefix(Shapes("Material"), << <<"field", "int", "id", 0>> >>)
    /\ "Material" \in closed =>
          Shapes("Material") = << <<"field", "int", "id", 0>> >>
    /\ \A k \in Named("Material", "id") :
          /\ Str(decls[k].annot) = "mk::resource(kind=uniform,set=0,binding=0)"
          /\ Settled(k) =>
                /\ Carries(k, "mk", "resource",
                           << <<"kind", "uniform">>, <<"set", "0">>,
                              <<"binding", "0">> >>)
                /\ \A a \in AttrsOn(k) :
                      /\ NumArg(attrs[a], "set", 0)
                      /\ NumArg(attrs[a], "binding", 0)

C3_Witness ==
    /\ "Material" \in closed
    /\ \E k \in Named("Material", "id") : AttrsOn(k) # {}

\* C4: the declaration of the aggregate DemoVertex itself, not one of its
\* fields, carries the string mk::struct(tag=vertex): a record of kind vertex.
C4_StructTag ==
    /\ \A k \in Named("", "DemoVertex") :
          /\ decls[k].kind = "struct"
          /\ Str(decls[k].annot) = "mk::struct(tag=vertex)"
          /\ Settled(k) =>
                Carries(k, "mk", "struct", << <<"tag", "vertex">> >>)
    /\ \A a \in 1..Len(attrs) :
          attrs[a].tag = "struct" => decls[attrs[a].decl].name = "DemoVertex"
    /\ "DemoVertex" \in closed => Cardinality(Named("", "DemoVertex")) = 1

C4_Witness ==
    \E k \in Named("", "DemoVertex") :
        \E a \in AttrsOn(k) : attrs[a].tag = "struct" /\ decls[k].kind = "struct"

C5_Strings ==
    {"mk::struct(tag=vertex)",
     "mk::vertex(location=1,format=vec3)",
     "mk::vertex(location=2,format=vec2)",
     "mk::resource(kind=uniform,set=0,binding=0)"}

\* The declarations that carry an annotation string.
WithAnnot == {k \in 1..Len(decls) : decls[k].annot # None}

\* C5: the annotation strings of the header are exactly the four strings of
\* C5_Strings, each on exactly one declaration; the field pos and the
\* aggregate Material carry none, and they are the only declarations without.
C5_AnnotationSet ==
    /\ \A k \in WithAnnot : Str(decls[k].annot) \in C5_Strings
    /\ \A k, j \in WithAnnot :
          Str(decls[k].annot) = Str(decls[j].annot) => k = j
    /\ \A k \in Named("DemoVertex", "pos") \cup Named("", "Material") :
          decls[k].annot = None /\ AttrsOn(k) = {}
    /\ Done =>
          /\ {Str(decls[k].annot) : k \in WithAnnot} = C5_Strings
          /\ Len(attrs) = 4
          /\ {<<decls[k].owner, decls[k].name>> :
                 k \in (1..Len(decls)) \ WithAnnot}
               = {<<"DemoVertex", "pos">>, <<"", "Material">>}

C5_Witness == Done /\ Cardinality(WithAnnot) = 4 /\ Len(decls) = 6

C7_Declared ==
    /\ ~err
    /\ \A k \in 1..Len(decls) :
          decls[k].kind \in {"struct", "field"} /\ ~decls[k].init

C7_Kept ==
    /\ IsPrefix(decls, decls')
    /\ IsPrefix(attrs, attrs')
    /\ closed \subseteq closed'

C8_Independent ==
    \A k \in 1..Len(decls) :
        /\ decls[k].owner = "DemoVertex" => decls[k].type # "Material"
        /\ decls[k].owner = "Material" => decls[k].type # "DemoVertex"
        /\ decls[k].kind = "struct" =>
              /\ decls[k].owner = ""
              /\ decls[k].base \notin {"DemoVertex", "Material"}

C8_Witness ==
    /\ closed = {"DemoVertex", "Material"}
    /\ Members("DemoVertex") # <<>>
    /\ Members("Material") # <<>>

\* The annotations of tag vertex.
VertexAttrs == {a \in 1..Len(attrs) : attrs[a].tag = "vertex"}

\* C9: on every field with an mk::vertex annotation the component count its
\* format names is the length of the field's array: vec3 on normal[3] and
\* vec2 on uv[2].
C9_FormatMatchesExtent ==
    /\ \A a \in VertexAttrs :
          /\ Cardinality(Vals(attrs[a], "format")) = 1
          /\ \A f \in Vals(attrs[a], "format") :
                Components(f) = decls[attrs[a].decl].extent
    /\ Done =>
          {<<decls[attrs[a].decl].name, Args(attrs[a])[2][2],
             decls[attrs[a].decl].extent>> : a \in VertexAttrs}
            = {<<"normal", "vec3", 3>>, <<"uv", "vec2", 2>>}

C9_Witness == Cardinality(VertexAttrs) = 2

\* The location annotation a gives.
Location(a) == CHOOSE v \in Vals(attrs[a], "location") : TRUE

\* C10: the locations of the mk::vertex fields of DemoVertex are pairwise
\* distinct and strictly increasing in declaration order, normal at 1
\* before uv at 2; no field is at location 0, and pos carries no mk::vertex
\* annotation.
C10_Locations ==
    /\ \A a \in VertexAttrs :
          /\ decls[attrs[a].decl].owner = "DemoVertex"
          /\ Cardinality(Vals(attrs[a], "location")) = 1
          /\ \A v \in Vals(attrs[a], "location") : IsNum(v) /\ ToNat(v) # 0
    /\ \A a, b \in VertexAttrs :
          attrs[a].decl < attrs[b].decl =>
              \A u \in Vals(attrs[a], "location"),
                 v \in Vals(attrs[b], "location") : ToNat(u) < ToNat(v)
    /\ \A k \in Named("DemoVertex", "pos") :
          \A a \in AttrsOn(k) : attrs[a].tag # "vertex"
    /\ Done =>
          {<<decls[attrs[a].decl].name, ToNat(Location(a))>> : a \in VertexAttrs}
            = {<<"normal", 1>>, <<"uv", 2>>}

C10_Witness ==
    /\ Done
    /\ \E a, b \in VertexAttrs : attrs[a].decl < attrs[b].decl

====
